---------------------------- MODULE Spec2Model ----------------------------
(***************************************************************************)
(* Model of sts-l10n.py: the record model (RecordNameParts, PureRecord,    *)
(* CSVRecord), the tabular reader (CSVRecordReader), the tabular writer,   *)
(* the JSON flattener (collect_records_from_json) and the JSON builder     *)
(* (OutputJSONDict).                                                       *)
(*                                                                         *)
(* Representation of Python values:                                        *)
(*   - a str is a sequence of one-character strings: "a:" is <<"a", ":">>; *)
(*   - a JSON value is a tagged pair <<kind, payload>>:                    *)
(*       <<"str", s>>     a str                                            *)
(*       <<"list", l>>    a list of str                                    *)
(*       <<"dict", d>>    an ordered mapping: a sequence of <<key, value>> *)
(*                        pairs with distinct keys, in insertion order     *)
(*       <<"int", n>>     a value that is neither Sequence nor Mapping     *)
(*   - a CSV row is a sequence of cells, each cell a str.                  *)
(***************************************************************************)
EXTENDS Integers, Sequences, FiniteSets

VARIABLES
    \* ---- CSVRecord <-> PureRecord conversion of one record
    record,        \* the PureRecord handed to CSVRecord.from_pure_record
    csv_rec,       \* the CSVRecord it returned
    pure_back,     \* what csv_rec.to_pure_record() returned
    conv_pc,       \* "start" | "csv" | "pure" | "raised"
    \* ---- CSVRecordReader
    rows,          \* the rows the row source yields, in order
    pos,           \* number of rows consumed from _rows_iter
    val_col,       \* CSVRecordReader._val_col
    mode,          \* "none" | "one" (read_one_record) | "all" (read_all_records)
    pc,            \* "idle" | "key" | "values" | "verify"
    typesig,       \* read_one_record: typesig of the key row
    key,           \* read_one_record: key of the key row
    number,        \* read_one_record: rows_to_read
    read_values,   \* _read_value_rows: read_values
    records,       \* read_all_records: records
    outcome,       \* how the last call ended: "none" | "returned" | exception name
    result,        \* value returned by the last call that returned
    call_start,    \* pos when the current/last read_one_record began
    exhausted_at,  \* pc at which the row source was found exhausted, or "no"
    returned,      \* history: every record read_one_record returned, with the
                   \* rows it consumed ([rec, from, to])
    \* ---- conversions (convert_json_to_csv / convert_csv_to_json pieces)
    stage,         \* position in the conversion pipeline
    json_dict,     \* the input JSON object (a "dict" value)
    pure_records,  \* a list of PureRecord
    out_rows,      \* rows written to the csv writer
    out_dict,      \* the OutputJSONDict being built
    build_idx,     \* number of records already included into out_dict
    build_err      \* "none" | exception name raised by include_record

vars == <<record, csv_rec, pure_back, conv_pc,
          rows, pos, val_col, mode, pc, typesig, key, number, read_values,
          records, outcome, result, call_start, exhausted_at, returned,
          stage, json_dict, pure_records, out_rows, out_dict, build_idx,
          build_err>>

convVars == <<record, csv_rec, pure_back, conv_pc>>
readerVars == <<rows, pos, val_col, mode, pc, typesig, key, number,
                read_values, records, outcome, result, call_start,
                exhausted_at, returned>>
pipeVars == <<stage, json_dict, pure_records, out_rows, out_dict, build_idx,
              build_err>>

----------------------------------------------------------------------------
(* Bounds of the model *)

MaxSegLen == 2      \* characters in one name part
MaxSegs == 2        \* name parts in one RecordNameParts
MaxListLen == 2     \* elements of an array value

----------------------------------------------------------------------------
(* Strings *)

Min(a, b) == IF a < b THEN a ELSE b
Max(a, b) == IF a > b THEN a ELSE b

SeqsUpTo(S, n) == UNION {[1..k -> S] : k \in 0..n}

RECURSIVE Concat(_)
Concat(ss) == IF ss = <<>> THEN <<>> ELSE Head(ss) \o Concat(Tail(ss))

Digits == <<"0", "1", "2", "3", "4", "5", "6", "7", "8", "9">>

IsDigit(c) == \E d \in 1..10 : Digits[d] = c
DigitVal(c) == (CHOOSE d \in 1..10 : Digits[d] = c) - 1

\* str(n) for an int n >= 0
RECURSIVE PyStr(_)
PyStr(n) == IF n < 10 THEN <<Digits[n + 1]>>
            ELSE PyStr(n \div 10) \o <<Digits[(n % 10) + 1]>>

\* value of a non-empty digit string
RECURSIVE DigitsVal(_)
DigitsVal(s) == IF Len(s) = 1 THEN DigitVal(s[1])
                ELSE 10 * DigitsVal(SubSeq(s, 1, Len(s) - 1)) + DigitVal(s[Len(s)])

\* int(s): [ok, n]; ok = FALSE stands for ValueError.  Over the characters
\* used here (digits, signs, letters, ":") Python accepts exactly an optional
\* sign followed by one or more digits.
PyInt(s) ==
    LET signed == Len(s) > 0 /\ s[1] \in {"-", "+"}
        body == IF signed THEN Tail(s) ELSE s
        valid == Len(body) > 0 /\ \A i \in 1..Len(body) : IsDigit(body[i])
    IN IF ~valid THEN [ok |-> FALSE, n |-> 0]
       ELSE [ok |-> TRUE,
             n |-> IF signed /\ s[1] = "-" THEN 0 - DigitsVal(body)
                   ELSE DigitsVal(body)]

----------------------------------------------------------------------------
(* RecordNameParts *)

SEP == <<":", ":">>

\* does sep occur in s at index i
OccursAt(s, sep, i) ==
    /\ i + Len(sep) - 1 <= Len(s)
    /\ \A j \in 1..Len(sep) : s[i + j - 1] = sep[j]

Contains(s, sep) == \E i \in 1..Len(s) : OccursAt(s, sep, i)

\* name.split(sep): cut at the leftmost occurrence, then split the rest
RECURSIVE PySplit(_, _)
PySplit(s, sep) ==
    IF ~Contains(s, sep) THEN <<s>>
    ELSE LET i == CHOOSE k \in 1..Len(s) :
                    /\ OccursAt(s, sep, k)
                    /\ \A m \in 1..(k - 1) : ~OccursAt(s, sep, m)
         IN <<SubSeq(s, 1, i - 1)>> \o PySplit(SubSeq(s, i + Len(sep), Len(s)), sep)

\* sep.join(parts)
RECURSIVE PyJoin(_, _)
PyJoin(sep, parts) ==
    IF parts = <<>> THEN <<>>
    ELSE IF Len(parts) = 1 THEN parts[1]
    ELSE parts[1] \o sep \o PyJoin(sep, Tail(parts))

\* RecordNameParts.from_str
from_str(name) == PySplit(name, SEP)

join_single_colon(parts) == PyJoin(<<":">>, parts)

\* RecordNameParts.__str__
name_str(parts) == PyJoin(SEP, parts)

\* RecordNameParts.__add__ with a str operand
name_add(parts, other) == Append(parts, other)

----------------------------------------------------------------------------
(* Values, PureRecord, CSVRecord *)

Kind(v) == v[1]
Val(v) == v[2]
PStr(s) == <<"str", s>>
PList(l) == <<"list", l>>
PDict(d) == <<"dict", d>>
PInt(n) == <<"int", n>>

IsStr(v) == Kind(v) = "str"                     \* isinstance(v, str)
IsSequence(v) == Kind(v) \in {"str", "list"}    \* isinstance(v, Sequence)
IsMapping(v) == Kind(v) = "dict"                \* isinstance(v, Mapping)

PureRecord(name_parts, value) == [name_parts |-> name_parts, value |-> value]
CSVRecord(t, k, vs) == [type |-> t, key |-> k, values |-> vs]

TYPE_SCALAR == <<"-">>
VALUE_ROW_TYPE == <<>>

NoRec == CSVRecord(<<>>, <<>>, <<>>)
NoPure == PureRecord(<<>>, PInt(0))

\* the parts of the state an operation does not use
ReaderIdle ==
    /\ rows = <<>> /\ pos = 0 /\ val_col = 1 /\ mode = "none" /\ pc = "idle"
    /\ typesig = <<>> /\ key = <<>> /\ number = 0 /\ read_values = <<>>
    /\ records = <<>> /\ outcome = "none" /\ result = <<>> /\ call_start = 0
    /\ exhausted_at = "no" /\ returned = <<>>

PipeIdle ==
    /\ stage = "idle" /\ json_dict = PDict(<<>>) /\ pure_records = <<>>
    /\ out_rows = <<>> /\ out_dict = PDict(<<>>) /\ build_idx = 0
    /\ build_err = "none"

ConvIdle ==
    /\ record = NoPure /\ csv_rec = NoRec /\ pure_back = NoPure
    /\ conv_pc = "idle"

from_pure_record_always_array(rec) ==
    IF IsSequence(rec.value)
    THEN [exc |-> "none",
          rec |-> CSVRecord(PyStr(IF IsStr(rec.value) THEN 1 ELSE Len(Val(rec.value))),
                            name_str(rec.name_parts),
                            IF IsStr(rec.value) THEN <<Val(rec.value)>>
                            ELSE Val(rec.value))]
    ELSE [exc |-> "UnexpectedRecordValueException", rec |-> NoRec]

\* CSVRecord.from_pure_record
from_pure_record(rec) ==
    IF IsStr(rec.value)
    THEN [exc |-> "none",
          rec |-> CSVRecord(TYPE_SCALAR, name_str(rec.name_parts),
                            <<Val(rec.value)>>)]
    ELSE IF IsSequence(rec.value)
    THEN [exc |-> "none",
          rec |-> CSVRecord(PyStr(Len(Val(rec.value))), name_str(rec.name_parts),
                            Val(rec.value))]
    ELSE [exc |-> "UnexpectedRecordValueException", rec |-> NoRec]

to_pure_record_always_list(crec) ==
    [exc |-> "none", rec |-> PureRecord(from_str(crec.key), PList(crec.values))]

\* CSVRecord.to_pure_record (values[0] of an empty list is an IndexError)
to_pure_record(crec) ==
    IF crec.type = TYPE_SCALAR
    THEN IF crec.values = <<>>
         THEN [exc |-> "IndexError", rec |-> NoPure]
         ELSE [exc |-> "none",
               rec |-> PureRecord(from_str(crec.key), PStr(crec.values[1]))]
    ELSE [exc |-> "none",
          rec |-> PureRecord(from_str(crec.key), PList(crec.values))]

----------------------------------------------------------------------------
(* CSVRecord.verify, CSVRecordReader *)

\* CSVRecord.get_number_of_values_for_type: [ok, n]; ok = FALSE is the
\* ValueError of int(typesig)
get_number_of_values_for_type(t) ==
    IF t = TYPE_SCALAR THEN [ok |-> TRUE, n |-> 1] ELSE PyInt(t)

\* CSVRecord.__verify_scalar
verify_scalar(crec) ==
    IF Len(crec.values) # 1 THEN "CSVRecordVerificationFailure" ELSE "none"

\* CSVRecord.__verify_array with __verify_length_sign
verify_array(crec) ==
    LET declared_len == PyInt(crec.type)
    IN IF ~declared_len.ok THEN "CSVRecordVerificationFailure"
       ELSE IF Len(crec.values) # declared_len.n
            THEN "CSVRecordVerificationFailure"
       ELSE "none"

verify_sign_only(crec) ==
    IF crec.type = TYPE_SCALAR THEN verify_scalar(crec)
    ELSE IF ~PyInt(crec.type).ok THEN "CSVRecordVerificationFailure"
    ELSE "none"

\* CSVRecord.verify: "none" or the exception raised
verify(crec) ==
    IF crec.type = TYPE_SCALAR THEN verify_scalar(crec) ELSE verify_array(crec)

get_row_value_first_column(value_row, col) ==
    IF Len(value_row) < 2 \/ value_row[1] # VALUE_ROW_TYPE
    THEN [exc |-> "CSVFormatException", value |-> <<>>]
    ELSE [exc |-> "none", value |-> value_row[2]]

\* CSVRecordReader._get_row_value (Python indexes cells from 0)
get_row_value(value_row, col) ==
    IF Len(value_row) < Max(2, col + 1) \/ value_row[1] # VALUE_ROW_TYPE
    THEN [exc |-> "CSVFormatException", value |-> <<>>]
    ELSE [exc |-> "none", value |-> value_row[col + 1]]

\* CSVRecordReader._verify_key_row
verify_key_row(key_row) ==
    IF Len(key_row) # 2 THEN "CSVFormatException" ELSE "none"

verify_values_number_at_most(values, n) ==
    IF Len(values) > n THEN "CSVFormatException" ELSE "none"

\* CSVRecordReader._verify_values_number
verify_values_number(values, n) ==
    IF Len(values) # n THEN "CSVFormatException" ELSE "none"

\* an exception leaves the running call (read_one_record, and read_all_records
\* around it, which returns nothing)
Raise(e) ==
    /\ pc' = "idle"
    /\ outcome' = e
    /\ result' = <<>>

\* a caller calls reader.read_one_record()
CallReadOneRecord ==
    /\ pc = "idle"
    /\ stage = "idle"
    /\ mode' = "one"
    /\ pc' = "key"
    /\ outcome' = "none"
    /\ result' = <<>>
    /\ exhausted_at' = "no"
    /\ UNCHANGED <<rows, pos, val_col, typesig, key, number, read_values,
                   records, call_start, returned, convVars, pipeVars>>

\* a caller calls reader.read_all_records(): records = []
CallReadAllRecords ==
    /\ pc = "idle"
    /\ stage = "idle"
    /\ mode' = "all"
    /\ pc' = "key"
    /\ records' = <<>>
    /\ outcome' = "none"
    /\ result' = <<>>
    /\ exhausted_at' = "no"
    /\ UNCHANGED <<rows, pos, val_col, typesig, key, number, read_values,
                   call_start, returned, convVars, pipeVars>>

\* read_one_record up to the value rows: _read_key_row (with _read_one_row
\* and _verify_key_row) and get_number_of_values_for_type.  In
\* read_all_records the CSVEndOfRowsException breaks the loop and the
\* records are returned.
ReadKeyRow ==
    /\ pc = "key"
    /\ IF pos = Len(rows)
       THEN /\ exhausted_at' = "key"
            /\ IF mode = "all"
               THEN /\ pc' = "idle"
                    /\ outcome' = "returned"
                    /\ result' = records
               ELSE Raise("CSVEndOfRowsException")
            /\ UNCHANGED <<pos, typesig, key, number, read_values, call_start>>
       ELSE LET row == rows[pos + 1]
            IN /\ pos' = pos + 1
               /\ call_start' = pos
               /\ read_values' = <<>>
               /\ UNCHANGED exhausted_at
               /\ IF verify_key_row(row) # "none"
                  THEN /\ Raise(verify_key_row(row))
                       /\ UNCHANGED <<typesig, key, number>>
                  ELSE /\ typesig' = row[1]
                       /\ key' = row[2]
                       /\ LET n == get_number_of_values_for_type(row[1])
                          IN IF ~n.ok
                             THEN /\ Raise("ValueError")
                                  /\ UNCHANGED number
                             ELSE /\ number' = n.n
                                  /\ pc' = IF n.n > 0 THEN "values" ELSE "verify"
                                  /\ UNCHANGED <<outcome, result>>
    /\ UNCHANGED <<rows, val_col, mode, records, returned, convVars, pipeVars>>

\* _read_value_rows once the loop of _gen_values has ended with vals read
AfterGenValues(vals) ==
    /\ read_values' = vals
    /\ IF verify_values_number(vals, number) # "none"
       THEN Raise(verify_values_number(vals, number))
       ELSE /\ pc' = "verify"
            /\ UNCHANGED <<outcome, result>>

\* one iteration of the loop of _gen_values (number > 0), and the end of
\* _read_value_rows when the loop ends
GenValue ==
    /\ pc = "values"
    /\ IF pos = Len(rows)
       THEN /\ exhausted_at' = "values"
            /\ AfterGenValues(read_values)
            /\ UNCHANGED pos
       ELSE LET v == get_row_value(rows[pos + 1], val_col)
                vals == Append(read_values, v.value)
            IN /\ pos' = pos + 1
               /\ UNCHANGED exhausted_at
               /\ IF v.exc # "none"
                  THEN /\ Raise(v.exc)
                       /\ UNCHANGED read_values
                  ELSE IF Len(vals) >= number
                  THEN AfterGenValues(vals)
                  ELSE /\ read_values' = vals
                       /\ UNCHANGED <<pc, outcome, result>>
    /\ UNCHANGED <<rows, val_col, mode, typesig, key, number, records,
                   call_start, returned, convVars, pipeVars>>

\* the end of read_one_record: rec = CSVRecord(typesig, key, values),
\* rec.verify(), return rec; read_all_records appends it and loops
VerifyRecord ==
    /\ pc = "verify"
    /\ LET rec == CSVRecord(typesig, key, read_values)
       IN IF verify(rec) # "none"
          THEN /\ Raise(verify(rec))
               /\ UNCHANGED <<records, returned>>
          ELSE /\ returned' = Append(returned,
                                     [rec |-> rec, from |-> call_start, to |-> pos])
               /\ IF mode = "all"
                  THEN /\ records' = Append(records, rec)
                       /\ pc' = "key"
                       /\ UNCHANGED <<outcome, result>>
                  ELSE /\ pc' = "idle"
                       /\ outcome' = "returned"
                       /\ result' = <<rec>>
                       /\ UNCHANGED records
    /\ UNCHANGED <<rows, pos, val_col, mode, typesig, key, number, read_values,
                   call_start, exhausted_at, convVars, pipeVars>>

----------------------------------------------------------------------------
(* The reader on arbitrary row sources *)

MaxRows == 3        \* rows in the row source
MaxCol == 2         \* largest values_column

Cell_A_B == <<"A", ":", ":", "B">>

RowChoices ==
    { << <<"-">>, Cell_A_B >>,
      << <<"2">>, Cell_A_B >>,
      << <<"1">>, Cell_A_B >>,
      << <<"0">>, Cell_A_B >>,
      << <<"a", "b", "c">>, Cell_A_B >>,
      << <<"-", "1">>, Cell_A_B >>,
      << <<>>, <<"x">> >>,
      << <<>>, <<"y">>, <<"z">> >>,
      << <<>> >> }

InitReader ==
    /\ rows \in SeqsUpTo(RowChoices, MaxRows)
    /\ val_col \in 1..MaxCol
    /\ pos = 0 /\ mode = "none" /\ pc = "idle"
    /\ typesig = <<>> /\ key = <<>> /\ number = 0 /\ read_values = <<>>
    /\ records = <<>> /\ outcome = "none" /\ result = <<>> /\ call_start = 0
    /\ exhausted_at = "no" /\ returned = <<>>
    /\ ConvIdle /\ PipeIdle

NextReader ==
    \/ CallReadOneRecord
    \/ CallReadAllRecords
    \/ ReadKeyRow
    \/ GenValue
    \/ VerifyRecord

SpecReader == InitReader /\ [][NextReader]_vars

----------------------------------------------------------------------------
(* C4, C5, C9, C10: the reader *)

IsValueRowFor(row, col) == Len(row) >= Max(2, col + 1) /\ row[1] = <<>>

ValidMarker(t) == t = <<"-">> \/ (PyInt(t).ok /\ PyInt(t).n >= 0)

\* a read_one_record call has ended after reading the key row at call_start
OneRecordCallEnded ==
    /\ pc = "idle"
    /\ mode = "one"
    /\ outcome \notin {"none", "CSVEndOfRowsException"}

\* C4 as stated: read_one_record on a 2-cell key row whose marker is neither
\* "-" nor a non-negative integer, followed by a well-formed value row, fails
\* with CSVRecordVerificationFailure (raised by verify() on the constructed
\* record) and with no other error.
C4_InvalidMarkerIsVerificationFailure ==
    (/\ OneRecordCallEnded
     /\ Len(rows[call_start + 1]) = 2
     /\ ~ValidMarker(rows[call_start + 1][1])
     /\ call_start + 2 <= Len(rows)
     /\ IsValueRowFor(rows[call_start + 2], val_col))
        => outcome = "CSVRecordVerificationFailure"

\* C5: read_all_records returns (the records read so far) if and only if the
\* row source is exhausted when a key row is about to be read; exhausted
\* while value rows are still due, the call fails with CSVFormatException
\* and returns no records.
C5_EndOfInput ==
    (pc = "idle" /\ mode = "all")
        => /\ outcome = "returned" <=> exhausted_at = "key"
           /\ outcome = "returned"
                 => /\ result = records
                    /\ pos = Len(rows)
                    /\ Len(result) <= Len(returned)
                    /\ \A i \in 1..Len(result) :
                          result[i] =
                            returned[Len(returned) - Len(result) + i].rec
           /\ exhausted_at = "values"
                 => /\ outcome = "CSVFormatException"
                    /\ result = <<>>
                    /\ Len(read_values) < number

C5_Witness ==
    /\ pc = "idle" /\ mode = "all"
    /\ rows = << << <<"2">>, Cell_A_B >>, << <<>>, <<"x">> >> >>
    /\ exhausted_at = "values"
    /\ outcome = "CSVFormatException"

\* C9: while value rows are read with values_column c, a row with fewer than
\* max(2, c+1) cells or a non-empty cell 0 fails the read with
\* CSVFormatException; of an accepted row exactly the cell at index c is
\* taken as the next value.
C9_ColumnSelection ==
    [][(pc = "values" /\ pos < Len(rows))
         => LET row == rows[pos + 1]
            IN IF Len(row) >= Max(2, val_col + 1) /\ row[1] = <<>>
               THEN /\ read_values' = Append(read_values, row[val_col + 1])
                    /\ outcome' = outcome
                    /\ pc' \in {"values", "verify"}
               ELSE /\ pc' = "idle"
                    /\ outcome' = "CSVFormatException"]_vars

C9_Witness ==
    /\ val_col = 2
    /\ pc = "verify"
    /\ rows[pos] = << <<>>, <<"y">>, <<"z">> >>
    /\ read_values = << <<"z">> >>

\* C10: every record read_one_record returned satisfies the count invariant
\* (marker "-": exactly one value; otherwise the marker parses as an integer
\* equal to the number of values), and the call consumed exactly the key row
\* and the len(values) rows after it, in order.
C10_ReturnedRecords ==
    \A i \in 1..Len(returned) :
        LET r == returned[i]
        IN /\ r.rec.type = <<"-">> => Len(r.rec.values) = 1
           /\ r.rec.type # <<"-">>
                 => /\ PyInt(r.rec.type).ok
                    /\ PyInt(r.rec.type).n = Len(r.rec.values)
           /\ r.to = r.from + 1 + Len(r.rec.values)
           /\ r.to <= Len(rows)
           /\ rows[r.from + 1] = <<r.rec.type, r.rec.key>>
           /\ \A j \in 1..Len(r.rec.values) :
                 /\ IsValueRowFor(rows[r.from + 1 + j], val_col)
                 /\ r.rec.values[j] = rows[r.from + 1 + j][val_col + 1]
           /\ i > 1 => returned[i - 1].to <= r.from

C10_Witness ==
    /\ Len(returned) = 2
    /\ returned[1].rec.type = <<"1">>
    /\ returned[1].rec.values = << <<"x">> >>
    /\ returned[2].rec.type = <<"0">>
    /\ pos = 3

----------------------------------------------------------------------------
(* Inputs of the record conversion *)

NameChars == {"a", ":"}
Segments == SeqsUpTo(NameChars, MaxSegLen)
NamePaths == SeqsUpTo(Segments, MaxSegs)

ValueStrs == {<<"x">>, <<>>}
RecordValues == {PStr(s) : s \in ValueStrs}
                \cup {PList(l) : l \in SeqsUpTo(ValueStrs, MaxListLen)}
                \cup {PInt(5)}

InitRecord ==
    /\ record \in {PureRecord(p, v) : p \in NamePaths, v \in RecordValues}
    /\ csv_rec = NoRec /\ pure_back = NoPure /\ conv_pc = "start"
    /\ ReaderIdle /\ PipeIdle

\* csv_rec = CSVRecord.from_pure_record(record)
FromPureRecord ==
    /\ conv_pc = "start"
    /\ LET r == from_pure_record(record)
       IN /\ csv_rec' = r.rec
          /\ conv_pc' = IF r.exc = "none" THEN "csv" ELSE "raised"
    /\ UNCHANGED <<record, pure_back, readerVars, pipeVars>>

\* pure_back = csv_rec.to_pure_record()
ToPureRecord ==
    /\ conv_pc = "csv"
    /\ LET r == to_pure_record(csv_rec)
       IN /\ pure_back' = r.rec
          /\ conv_pc' = IF r.exc = "none" THEN "pure" ELSE "raised"
    /\ UNCHANGED <<record, csv_rec, readerVars, pipeVars>>

NextRecord == FromPureRecord \/ ToPureRecord

SpecRecord == InitRecord /\ [][NextRecord]_vars

----------------------------------------------------------------------------
(* C3, C6 *)

NoSepInside(p) == \A i \in 1..Len(p) : ~Contains(p[i], SEP)

\* C3 as stated: for every path none of whose segments contains "::",
\* from_str(str(p)) = p (stated here for the non-empty paths only).
C3_Original ==
    (/\ conv_pc = "pure"
     /\ record.name_parts # <<>>
     /\ NoSepInside(record.name_parts))
        => pure_back.name_parts = record.name_parts

EndsWithColon(s) == Len(s) > 0 /\ s[Len(s)] = ":"

\* C3 amended: the round trip from_str(str(p)) = p holds for every non-empty
\* path none of whose segments contains "::" and none of whose segments but
\* the last ends with ":".
C3_RoundTrip ==
    (/\ conv_pc = "pure"
     /\ record.name_parts # <<>>
     /\ NoSepInside(record.name_parts)
     /\ \A i \in 1..(Len(record.name_parts) - 1) :
            ~EndsWithColon(record.name_parts[i]))
        => /\ csv_rec.key = name_str(record.name_parts)
           /\ pure_back.name_parts = record.name_parts

C3_Witness ==
    /\ conv_pc = "pure"
    /\ record.name_parts = << <<"a">>, <<":", "a">> >>
    /\ csv_rec.key = <<"a", ":", ":", ":", "a">>
    /\ pure_back.name_parts = record.name_parts

\* C6: from_pure_record gives marker "-" and [value] for a string, marker
\* str(N) and the N values for a sequence of N strings, and to_pure_record
\* of the result gives back the same value, scalar or array.
C6_ScalarArrayKept ==
    /\ (conv_pc \in {"csv", "pure"} /\ IsStr(record.value))
          => /\ csv_rec.type = <<"-">>
             /\ csv_rec.values = <<Val(record.value)>>
    /\ (conv_pc \in {"csv", "pure"} /\ Kind(record.value) = "list")
          => /\ PyInt(csv_rec.type) = [ok |-> TRUE, n |-> Len(Val(record.value))]
             /\ csv_rec.type # <<"-">>
             /\ Len(Val(record.value)) = 0 => csv_rec.type = <<"0">>
             /\ Len(Val(record.value)) = 1 => csv_rec.type = <<"1">>
             /\ csv_rec.values = Val(record.value)
    /\ (conv_pc = "pure" /\ IsSequence(record.value))
          => pure_back.value = record.value
    /\ conv_pc = "raised" => ~IsSequence(record.value)

C6_Witness ==
    /\ conv_pc = "pure"
    /\ record.value = PList(<< <<"x">> >>)
    /\ csv_rec.type = <<"1">>
    /\ pure_back.value = PList(<< <<"x">> >>)

----------------------------------------------------------------------------
(* OrderedDict, OutputJSONDict, flattener, writer *)

\* key in d
dict_has(d, k) == \E i \in 1..Len(d) : d[i][1] = k

\* d[key] for a key that is present
dict_getitem(d, k) == d[CHOOSE i \in 1..Len(d) : d[i][1] = k][2]

dict_setitem_front(d, k, v) ==
    IF dict_has(d, k)
    THEN [i \in 1..Len(d) |-> IF d[i][1] = k THEN <<k, v>> ELSE d[i]]
    ELSE << <<k, v>> >> \o d

\* d[key] = value of an OrderedDict: a present key keeps its place, a new key
\* goes last
dict_setitem(d, k, v) ==
    IF dict_has(d, k)
    THEN [i \in 1..Len(d) |-> IF d[i][1] = k THEN <<k, v>> ELSE d[i]]
    ELSE Append(d, <<k, v>>)

\* OutputJSONDict.include_record on the entries d of a mapping, for the rest
\* `parts` of record.name_parts: __get_nested_dict walks target[key], which
\* __missing__ serves with a new OutputJSONDict stored under the key, and
\* which is a TypeError when target is a str or a list; then
\* record_target[name_parts[-1]] = value, a TypeError on a str or a list too.
\* name_parts[-1] of an empty tuple is an IndexError.  [exc, d]
RECURSIVE include_at(_, _, _)
include_at(d, parts, value) ==
    IF parts = <<>> THEN [exc |-> "IndexError", d |-> d]
    ELSE IF Len(parts) = 1
    THEN [exc |-> "none", d |-> dict_setitem(d, parts[1], value)]
    ELSE IF ~dict_has(d, parts[1])
    THEN [exc |-> "none",
          d |-> dict_setitem(d, parts[1],
                             PDict(include_at(<<>>, Tail(parts), value).d))]
    ELSE LET target == dict_getitem(d, parts[1])
         IN IF ~IsMapping(target) THEN [exc |-> "TypeError", d |-> d]
            ELSE LET r == include_at(Val(target), Tail(parts), value)
                 IN IF r.exc # "none" THEN [exc |-> r.exc, d |-> d]
                    ELSE [exc |-> "none",
                          d |-> dict_setitem(d, parts[1], PDict(r.d))]

\* OutputJSONDict.include_record
include_record(d, rec) == include_at(d, rec.name_parts, rec.value)

RECURSIVE collect_lists_only(_, _)
collect_lists_only(entries, parent_name_parts) ==
    IF entries = <<>> THEN <<>>
    ELSE LET name_parts == name_add(parent_name_parts, entries[1][1])
             value == entries[1][2]
         IN (IF Kind(value) = "list" THEN <<PureRecord(name_parts, value)>>
             ELSE IF IsMapping(value)
                  THEN collect_lists_only(Val(value), name_parts)
             ELSE <<>>)
            \o collect_lists_only(Tail(entries), parent_name_parts)

\* collect_records_from_json on the entries of json_dict
RECURSIVE collect_records_from_json(_, _)
collect_records_from_json(entries, parent_name_parts) ==
    IF entries = <<>> THEN <<>>
    ELSE LET name_parts == name_add(parent_name_parts, entries[1][1])
             value == entries[1][2]
         IN (IF IsSequence(value) THEN <<PureRecord(name_parts, value)>>
             ELSE IF IsMapping(value)
                  THEN collect_records_from_json(Val(value), name_parts)
             ELSE <<>>)
            \o collect_records_from_json(Tail(entries), parent_name_parts)

\* CSVRecord.write_to_csv: the rows written
write_to_csv(crec) ==
    << <<crec.type, crec.key>> >>
        \o [i \in 1..Len(crec.values) |-> <<VALUE_ROW_TYPE, crec.values[i]>>]

\* write_records_to_csv: [exc, rows]; the rows written before an exception
\* stay written
RECURSIVE write_records_to_csv(_)
write_records_to_csv(recs) ==
    IF recs = <<>> THEN [exc |-> "none", rows |-> <<>>]
    ELSE LET c == from_pure_record(recs[1])
         IN IF c.exc # "none" THEN [exc |-> c.exc, rows |-> <<>>]
            ELSE LET rest == write_records_to_csv(Tail(recs))
                 IN [exc |-> rest.exc, rows |-> write_to_csv(c.rec) \o rest.rows]

----------------------------------------------------------------------------
(* The steps of convert_json_to_csv and convert_csv_to_json *)

\* records = collect_records_from_json(src)  (read_records_from_json after
\* json.load)
CollectRecords(src, from, to) ==
    /\ stage = from
    /\ pure_records' = collect_records_from_json(Val(src), <<>>)
    /\ stage' = to
    /\ UNCHANGED <<json_dict, out_rows, out_dict, build_idx, build_err,
                   readerVars, convVars>>

\* write_records_to_csv(csv_writer, records)
WriteRecordsToCsv(from, to) ==
    /\ stage = from
    /\ LET w == write_records_to_csv(pure_records)
       IN /\ out_rows' = w.rows
          /\ stage' = IF w.exc = "none" THEN to ELSE "failed"
          /\ build_err' = w.exc
    /\ UNCHANGED <<json_dict, pure_records, out_dict, build_idx,
                   readerVars, convVars>>

\* read_records_from_csv(csv_reader, values_column, skipped_rows) up to the
\* call of read_all_records: skip_iter_items, then CSVRecordReader(...)
ReadRecordsFromCsv(src_rows, values_column, skipped_rows, from, to) ==
    /\ stage = from
    /\ values_column >= 1
    /\ stage' = to
    /\ rows' = src_rows
    /\ pos' = Min(skipped_rows, Len(src_rows))
    /\ val_col' = values_column
    /\ mode' = "all"
    /\ pc' = "key"
    /\ records' = <<>>
    /\ outcome' = "none"
    /\ result' = <<>>
    /\ exhausted_at' = "no"
    /\ UNCHANGED <<typesig, key, number, read_values, call_start, returned,
                   json_dict, pure_records, out_rows, out_dict, build_idx,
                   build_err, convVars>>

\* the end of read_records_from_csv: to_pure_record of every record read;
\* write_records_to_json then starts from an empty OutputJSONDict
ConvertRecords(from, to) ==
    /\ stage = from
    /\ pc = "idle"
    /\ outcome = "returned"
    /\ pure_records' = [i \in 1..Len(result) |-> to_pure_record(result[i]).rec]
    /\ out_dict' = PDict(<<>>)
    /\ build_idx' = 0
    /\ stage' = to
    /\ UNCHANGED <<json_dict, out_rows, build_err, readerVars, convVars>>

\* one iteration of the loop of write_records_to_json:
\* out_dict.include_record(record)
IncludeRecord(at) ==
    /\ stage = at
    /\ build_idx < Len(pure_records)
    /\ LET r == include_record(Val(out_dict), pure_records[build_idx + 1])
       IN /\ out_dict' = PDict(r.d)
          /\ build_err' = r.exc
          /\ build_idx' = IF r.exc = "none" THEN build_idx + 1 ELSE build_idx
          /\ stage' = IF r.exc = "none" THEN at ELSE "failed"
    /\ UNCHANGED <<json_dict, pure_records, out_rows, readerVars, convVars>>

\* the end of write_records_to_json: json.dump(out_dict, ...)
DumpJson(from, to) ==
    /\ stage = from
    /\ build_idx = Len(pure_records)
    /\ stage' = to
    /\ UNCHANGED <<json_dict, pure_records, out_rows, out_dict, build_idx,
                   build_err, readerVars, convVars>>

----------------------------------------------------------------------------
(* JSON -> tabular -> JSON *)

MaxEntries == 2     \* keys in the JSON object, over all its levels

JsonKeys == { <<"a">>, <<"a", ":">>, <<":", "b">>, <<>> }

JsonLeaves == { PStr(<<"x">>), PList(<<>>), PList(<< <<"x">> >>),
                PList(<< <<"x">>, <<"y">> >>), PInt(5) }

KeysOf(d) == {d[i][1] : i \in 1..Len(d)}

\* the ordered mappings with n keys over all their levels: a first entry
\* whose value holds a of the keys, then an ordered mapping with the rest
RECURSIVE DictsOfSize(_)
DictsOfSize(n) ==
    IF n = 0 THEN {<<>>}
    ELSE UNION { LET values == IF a = 0 THEN JsonLeaves \cup {PDict(<<>>)}
                               ELSE {PDict(d) : d \in DictsOfSize(a)}
                     rests == DictsOfSize(n - 1 - a)
                 IN { << <<u[1], u[2]>> >> \o u[3] :
                      u \in { w \in JsonKeys \X values \X rests :
                                w[1] \notin KeysOf(w[3]) } } :
                 a \in 0..(n - 1) }

Str_Cards == <<"C", "a", "r", "d", "s">>
Str_Strike == <<"S", "t", "r", "i", "k", "e">>
Str_NAME == <<"N", "A", "M", "E">>

ExampleDict ==
    << <<Str_Cards, PDict(<< <<Str_Strike,
                              PDict(<< <<Str_NAME, PStr(Str_Strike)>> >>)>> >>)>> >>

\* {"a": {"": "x", ":b": ["x", "y"]}, "": {"a": []}}
NestedDict ==
    << << <<"a">>, PDict(<< << <<>>, PStr(<<"x">>) >>,
                            << <<":", "b">>, PList(<< <<"x">>, <<"y">> >>) >> >>) >>,
       << <<>>, PDict(<< << <<"a">>, PList(<<>>) >> >>) >> >>

JsonDicts ==
    (UNION {DictsOfSize(n) : n \in 0..MaxEntries}) \cup {ExampleDict, NestedDict}

InitJson ==
    /\ json_dict \in {PDict(d) : d \in JsonDicts}
    /\ stage = "json_in"
    /\ pure_records = <<>> /\ out_rows = <<>> /\ out_dict = PDict(<<>>)
    /\ build_idx = 0 /\ build_err = "none"
    /\ ReaderIdle /\ ConvIdle

NextJson ==
    \/ CollectRecords(json_dict, "json_in", "records")
    \/ WriteRecordsToCsv("records", "csv")
    \/ ReadRecordsFromCsv(out_rows, 1, 0, "csv", "reading")
    \/ ReadKeyRow
    \/ GenValue
    \/ VerifyRecord
    \/ ConvertRecords("reading", "build")
    \/ IncludeRecord("build")
    \/ DumpJson("build", "json_out")

SpecJson == InitJson /\ [][NextJson]_vars

----------------------------------------------------------------------------
(* C8, C1 *)

\* the property `what` of one entry of a mapping
EntryIs(what, k, v) ==
    CASE what = "string leaf" -> Kind(v) # "int"
      [] what = "no sep in key" -> ~Contains(k, SEP)
      [] what = "not empty" -> v # PDict(<<>>)
      [] what = "no colon before sep" ->
             (IsMapping(v) => (k = <<>> \/ k[Len(k)] # ":"))

\* every entry of the mapping d, at every level, has the property
RECURSIVE EveryEntry(_, _)
EveryEntry(d, what) ==
    \A i \in 1..Len(d) :
        /\ EntryIs(what, d[i][1], d[i][2])
        /\ IsMapping(d[i][2]) => EveryEntry(Val(d[i][2]), what)

\* the number of values, at every level of d, that are a str or a list
RECURSIVE NumSequenceValues(_)
NumSequenceValues(d) ==
    IF d = <<>> THEN 0
    ELSE (IF IsSequence(d[1][2]) THEN 1
          ELSE IF IsMapping(d[1][2]) THEN NumSequenceValues(Val(d[1][2]))
          ELSE 0)
         + NumSequenceValues(Tail(d))

\* the value found in d by following the keys of parts; <<"absent", 0>> if
\* there is none
RECURSIVE ValueAt(_, _)
ValueAt(d, parts) ==
    IF parts = <<>> \/ ~dict_has(d, parts[1]) THEN <<"absent", 0>>
    ELSE IF Len(parts) = 1 THEN dict_getitem(d, parts[1])
    ELSE IF ~IsMapping(dict_getitem(d, parts[1])) THEN <<"absent", 0>>
    ELSE ValueAt(Val(dict_getitem(d, parts[1])), Tail(parts))

\* the place of each key of parts in its mapping (parts leads to a value of d)
RECURSIVE PlaceOf(_, _)
PlaceOf(d, parts) ==
    IF parts = <<>> THEN <<>>
    ELSE LET i == CHOOSE k \in 1..Len(d) : d[k][1] = parts[1]
         IN <<i>> \o (IF Len(parts) = 1 THEN <<>>
                      ELSE PlaceOf(Val(d[i][2]), Tail(parts)))

\* p comes before q in depth-first document order
Before(p, q) ==
    \E n \in 1..Min(Len(p), Len(q)) :
        /\ \A m \in 1..(n - 1) : p[m] = q[m]
        /\ p[n] < q[n]

Flattened == stage \in {"records", "csv", "reading"}

\* C8: collect_records_from_json emits exactly one record for each value that
\* is a string or a sequence and none for a mapping, which it recurses into;
\* each record has the path of keys from the root to its value, and the
\* records come in depth-first document order.
C8_FlattenerLeavesAndOrder ==
    Flattened =>
        /\ \A i \in 1..Len(pure_records) :
              /\ ValueAt(Val(json_dict), pure_records[i].name_parts)
                    = pure_records[i].value
              /\ IsSequence(pure_records[i].value)
        /\ Len(pure_records) = NumSequenceValues(Val(json_dict))
        /\ \A i, j \in 1..Len(pure_records) :
              i < j => Before(PlaceOf(Val(json_dict), pure_records[i].name_parts),
                              PlaceOf(Val(json_dict), pure_records[j].name_parts))
        /\ json_dict = PDict(ExampleDict)
              => pure_records = << PureRecord(<<Str_Cards, Str_Strike, Str_NAME>>,
                                             PStr(Str_Strike)) >>

C8_Witness ==
    /\ stage = "records"
    /\ json_dict = PDict(NestedDict)
    /\ Len(pure_records) = 3
    /\ pure_records[2] = PureRecord(<< <<"a">>, <<":", "b">> >>,
                                    PList(<< <<"x">>, <<"y">> >>))

\* the conversion there and back has ended, with the object or an exception
JsonRoundTripEnded ==
    \/ stage \in {"json_out", "failed"}
    \/ stage = "reading" /\ pc = "idle" /\ outcome # "returned"

OnlyStringLeaves(d) == EveryEntry(d, "string leaf")
NoSepInKeys(d) == EveryEntry(d, "no sep in key")
NoEmptyNested(d) == EveryEntry(d, "not empty")
NoColonBeforeSep(d) == EveryEntry(d, "no colon before sep")

\* C1 as stated: for any JSON object whose leaves are strings or arrays of
\* strings and whose keys contain no "::", flattening, writing, reading back
\* (column 1, no skipped rows) and building yields an equal object.  (An
\* empty nested object is counted here as a leaf that is neither.)
C1_Original ==
    (/\ JsonRoundTripEnded
     /\ OnlyStringLeaves(Val(json_dict))
     /\ NoEmptyNested(Val(json_dict))
     /\ NoSepInKeys(Val(json_dict)))
        => /\ stage = "json_out"
           /\ out_dict = json_dict

\* C1 amended: the round trip yields an object equal to the original, key
\* order included, for any JSON object whose leaves are strings or arrays of
\* strings, whose keys contain no "::", in which no key whose value is an
\* object ends with ":", and which has no empty nested object.
C1_JsonRoundTrip ==
    (/\ JsonRoundTripEnded
     /\ OnlyStringLeaves(Val(json_dict))
     /\ NoSepInKeys(Val(json_dict))
     /\ NoColonBeforeSep(Val(json_dict))
     /\ NoEmptyNested(Val(json_dict)))
        => /\ stage = "json_out"
           /\ out_dict = json_dict

C1_Witness ==
    /\ stage = "json_out"
    /\ json_dict = PDict(NestedDict)
    /\ Len(out_rows) = 6
    /\ out_dict = json_dict

----------------------------------------------------------------------------
(* tabular -> JSON -> tabular *)

MaxRecs == 3        \* records in the input rows

Cell_A == <<"A">>
Cell_B == <<"B">>
Cell_C == <<"C">>
Cell_A_C == <<"A", ":", ":", "C">>
Cell_A_B_C == <<"A", ":", ":", "B", ":", ":", "C">>

\* well-formed records: a key row and the value rows it declares
RowBlocks ==
    { << << <<"-">>, Cell_A >>, << <<>>, <<"x">> >> >>,
      << << <<"1">>, Cell_A >>, << <<>>, <<"y">>, <<"z">> >> >>,
      << << <<"-">>, Cell_A_B >>, << <<>>, <<"x">> >> >>,
      << << <<"0">>, Cell_A_C >> >>,
      << << <<"2">>, Cell_B >>, << <<>>, <<"x">> >>, << <<>>, <<"y">>, <<"z">> >> >>,
      << << <<"0", "1">>, Cell_C >>, << <<>>, <<"x">> >> >>,
      << << <<"-">>, Cell_A_B_C >>, << <<>>, <<"y">> >> >> }

InitCsv ==
    /\ rows \in {Concat(bs) : bs \in SeqsUpTo(RowBlocks, MaxRecs)}
    /\ stage = "csv_in"
    /\ pos = 0 /\ val_col = 1 /\ mode = "none" /\ pc = "idle"
    /\ typesig = <<>> /\ key = <<>> /\ number = 0 /\ read_values = <<>>
    /\ records = <<>> /\ outcome = "none" /\ result = <<>> /\ call_start = 0
    /\ exhausted_at = "no" /\ returned = <<>>
    /\ json_dict = PDict(<<>>) /\ pure_records = <<>> /\ out_rows = <<>>
    /\ out_dict = PDict(<<>>) /\ build_idx = 0 /\ build_err = "none"
    /\ ConvIdle

NextCsv ==
    \/ ReadRecordsFromCsv(rows, 1, 0, "csv_in", "reading")
    \/ ReadKeyRow
    \/ GenValue
    \/ VerifyRecord
    \/ ConvertRecords("reading", "build")
    \/ IncludeRecord("build")
    \/ DumpJson("build", "json")
    \/ CollectRecords(out_dict, "json", "records_out")
    \/ WriteRecordsToCsv("records_out", "csv_out")

SpecCsv == InitCsv /\ [][NextCsv]_vars

----------------------------------------------------------------------------
(* C7, C2 *)

\* C7 as stated: include_record applied to each record in order completes
\* without error; the final segment of each record's path is set to the
\* record's value, earlier content in the way being overwritten.
C7_IncludeRecordCompletes ==
    stage \in {"build", "failed", "json"}
        => /\ build_err = "none"
           /\ build_idx > 0
                 => ValueAt(Val(out_dict), pure_records[build_idx].name_parts)
                       = pure_records[build_idx].value

\* the selected column of the rows: cell 0 and cell 1 of each
SelectedColumn(rs) == [i \in 1..Len(rs) |-> <<rs[i][1], rs[i][2]>>]

CsvRoundTripEnded ==
    \/ stage \in {"csv_out", "failed"}
    \/ stage = "reading" /\ pc = "idle" /\ outcome # "returned"

IsPrefix(p, q) == Len(p) <= Len(q) /\ SubSeq(q, 1, Len(p)) = p

\* the path of the i-th record read from the rows
PathRead(i) == from_str(result[i].key)

\* every marker is "-" or the decimal str of its integer
CanonicalMarkers ==
    \A i \in 1..Len(result) :
        \/ result[i].type = <<"-">>
        \/ /\ PyInt(result[i].type).ok
           /\ PyInt(result[i].type).n >= 0
           /\ PyStr(PyInt(result[i].type).n) = result[i].type

\* C2 as stated: for any well-formed row sequence, reading (column 1),
\* building, flattening and writing yields rows equal to the original,
\* ignoring the cells after cell 1.  (Stated here for the conversions that
\* complete, on rows whose markers are "-" or canonical decimals; the rows
\* of this specification are all well-formed.)
C2_Original ==
    (stage = "csv_out" /\ CanonicalMarkers)
        => out_rows = SelectedColumn(rows)

\* no record's path is another's, or a prefix of another's
PrefixFree ==
    \A i, j \in 1..Len(result) : i # j => ~IsPrefix(PathRead(i), PathRead(j))

\* records whose paths share a prefix are next to each other
Grouped ==
    \A i, j, k \in 1..Len(result) :
        (i < j /\ j < k)
            => \A n \in 1..Min(Len(PathRead(i)), Len(PathRead(k))) :
                  SubSeq(PathRead(i), 1, n) = SubSeq(PathRead(k), 1, n)
                      => IsPrefix(SubSeq(PathRead(i), 1, n), PathRead(j))

\* C2 amended: the round trip yields rows equal to the original (ignoring the
\* cells after cell 1), with the same records in the same order, for any
\* well-formed row sequence whose markers are "-" or canonical decimals
\* (str(int(m)) == m), in which no record's path equals or is a prefix of
\* another record's path, and in which the records sharing a path prefix are
\* adjacent.
C2_CsvRoundTrip ==
    (CsvRoundTripEnded /\ CanonicalMarkers /\ PrefixFree /\ Grouped)
        => /\ stage = "csv_out"
           /\ out_rows = SelectedColumn(rows)
           /\ pure_records
                 = [i \in 1..Len(result) |-> to_pure_record(result[i]).rec]

C2_Witness ==
    /\ stage = "csv_out"
    /\ Len(result) = 3
    /\ result[1].key = Cell_A_B
    /\ result[2].key = Cell_A_C
    /\ result[3].key = Cell_B
    /\ out_rows = SelectedColumn(rows)
    /\ out_rows # rows

=============================================================================
